---- MODULE Spec2Model ----
(***************************************************************************)
(* A model of python-shell's PythonShell session (src/index.ts): the       *)
(* lifecycle controller (terminateIfNeeded and the three completion        *)
(* signals), the line framer (recieveInternal), the built-in codecs, the   *)
(* error parser, end(), terminate() and the one-shot helper run().         *)
(*                                                                         *)
(* Text is a sequence of one-character strings.  A JavaScript null or      *)
(* undefined is Null (exit code), NullSignal (exit signal), NoCallback     *)
(* (_endCallback) or the empty sequence (an optional error).               *)
(***************************************************************************)
EXTENDS Integers, Sequences, FiniteSets, TLC

\* ---------------------------------------------------------------- bounds
MaxStdout == 1          \* characters received on stdout in one session
MaxStderr == 1          \* characters received on stderr in one session
MaxFramerText == 2      \* characters received per stream in a framer session
MaxChunk == 2           \* longest chunk the transport delivers
MaxExitCode == 1        \* largest exit code the process returns
MaxErrorListeners == 1  \* subscribers of the error event
MaxErrorText == 5       \* characters received on stderr in a traceback session
MaxRunText == 3         \* characters received on stdout in a run session
MaxSends == 2           \* send calls in one session
MaxNumber == 1          \* largest number a caller sends

\* ------------------------------------------------------- values and text
Null == -1
NullSignal == "null"
NoCallback == "undefined"
Callbacks == {"cb1", "cb2"}
RunEnd == "runEnd"
Signals == {"SIGTERM"}

LF == <<"\n">>
CRLF == <<"\r", "\n">>
Chars == {"1", "\r", "\n"}
Whitespace == {"\r", "\n"}
Marker == "Traceback"

Chunks(n) == UNION {[1..k -> Chars] : k \in 1..n}

\* stderr text of a failing script: the marker is one token of the text
ErrorChars == {Marker, "1", "\n"}
ErrorChunks(n) == UNION {[1..k -> ErrorChars] : k \in 1..n}

Str(s) == [kind |-> "str", str |-> s, num |-> 0]
Num(n) == [kind |-> "num", str |-> <<>>, num |-> n]

\* ------------------------------------------------------------ String.split
\* index of the first occurrence of nl in s, 0 when there is none
IndexOf(s, nl) ==
    LET hits == {i \in 1..Len(s) : i + Len(nl) - 1 <= Len(s)
                                   /\ SubSeq(s, i, i + Len(nl) - 1) = nl}
    IN IF hits = {} THEN 0 ELSE CHOOSE i \in hits : \A j \in hits : i <= j

RECURSIVE split(_, _)
split(s, nl) ==
    LET i == IndexOf(s, nl)
    IN IF i = 0 THEN <<s>>
       ELSE <<SubSeq(s, 1, i - 1)>> \o split(SubSeq(s, i + Len(nl), Len(s)), nl)

RECURSIVE join(_, _)
join(parts, sepr) ==
    IF Len(parts) = 0 THEN <<>>
    ELSE IF Len(parts) = 1 THEN parts[1]
    ELSE parts[1] \o sepr \o join(Tail(parts), sepr)

RECURSIVE trimStart(_)
trimStart(s) ==
    IF Len(s) > 0 /\ s[1] \in Whitespace THEN trimStart(Tail(s)) ELSE s

RECURSIVE trimEnd(_)
trimEnd(s) ==
    IF Len(s) > 0 /\ s[Len(s)] \in Whitespace
    THEN trimEnd(SubSeq(s, 1, Len(s) - 1)) ELSE s

trim(s) == trimEnd(trimStart(s))

\* ------------------------------------------------------------------ codecs
resolve(val) == IF val \in {"text", "json"} THEN val ELSE "undefined"

asText(data) == Str(data)

RECURSIVE DigitsValue(_)
DigitsValue(s) ==
    IF Len(s) = 0 THEN 0
    ELSE 10 * DigitsValue(SubSeq(s, 1, Len(s) - 1)) + 1

\* JSON.parse on text over Chars: surrounding whitespace is skipped and the
\* rest must be a number literal; anything else raises SyntaxError
JsonValid(data) ==
    LET body == trim(data)
    IN Len(body) > 0 /\ \A i \in 1..Len(body) : body[i] = "1"

asJson(data) == Num(DigitsValue(trim(data)))

\* a call p(part): the value, or threw when the call raises (JSON.parse on
\* invalid text; calling an undefined parser is a TypeError)
CallParser(p, part) ==
    IF p = "text" THEN [threw |-> FALSE, val |-> asText(part)]
    ELSE IF p = "json" /\ JsonValid(part) THEN [threw |-> FALSE, val |-> asJson(part)]
    ELSE [threw |-> TRUE, val |-> Str(<<>>)]

\* --------------------------------------------------------------- formatters
Bool(b) == [kind |-> "bool", str |-> <<>>, num |-> IF b THEN 1 ELSE 0]

\* the message values a caller sends
Values ==
    {Str(<<>>), Str(<<"1">>)} \cup {Num(n) : n \in 0..MaxNumber}
    \cup {Bool(b) : b \in BOOLEAN}

DigitChars == <<"0", "1", "2", "3", "4", "5", "6", "7", "8", "9">>

RECURSIVE NumberText(_)
NumberText(n) ==
    IF n < 10 THEN <<DigitChars[n + 1]>>
    ELSE NumberText(n \div 10) \o <<DigitChars[(n % 10) + 1]>>

\* v.toString(), which for these values is also String(v)
toString(v) ==
    IF v.kind = "str" THEN v.str
    ELSE IF v.kind = "num" THEN NumberText(v.num)
    ELSE IF v.num = 1 THEN <<"t", "r", "u", "e">>
    ELSE <<"f", "a", "l", "s", "e">>

\* !data: the empty string, 0 and false
Falsy(v) == v \in {Str(<<>>), Num(0), Bool(FALSE)}

\* format.text
toText(data) ==
    IF Falsy(data) THEN <<>>
    ELSE IF data.kind # "str" THEN toString(data)
    ELSE data.str

\* format.json: JSON.stringify quotes a string (these need no escapes)
toJson(data) ==
    IF data.kind = "str" THEN <<"\"">> \o data.str \o <<"\"">>
    ELSE toString(data)

\* this.formatter(message), for a formatter resolve('format', mode) found
Format(f, message) == IF f = "text" THEN toText(message) ELSE toJson(message)

\* ------------------------------------------------------------- line framer
\* parts.forEach(part => emit(type, p(part))): stops at the first raise
RECURSIVE EmitParts(_, _)
EmitParts(parts, p) ==
    IF Len(parts) = 0 THEN [emitted |-> <<>>, threw |-> FALSE]
    ELSE LET r == CallParser(p, parts[1])
         IN IF r.threw THEN [emitted |-> <<>>, threw |-> TRUE]
            ELSE LET rest == EmitParts(Tail(parts), p)
                 IN [emitted |-> <<r.val>> \o rest.emitted, threw |-> rest.threw]

recieveInternal(remaining, data, p, nl) ==
    LET parts == split(data, nl)
    IN IF Len(parts) = 1
       THEN [remaining |-> remaining \o parts[1], emitted |-> <<>>, threw |-> FALSE]
       ELSE LET lastLine == parts[Len(parts)]
                front == SubSeq(parts, 1, Len(parts) - 1)
                fixed == [front EXCEPT ![1] = remaining \o front[1]]
                e == EmitParts(fixed, p)
            IN [remaining |-> lastLine, emitted |-> e.emitted, threw |-> e.threw]

\* ------------------------------------------------------------ error parser
PythonShellError(message) ==
    [message |-> message, traceback |-> <<>>, stack |-> <<>>, exitCode |-> Null]

stderrMessage(text) == [generic |-> FALSE, text |-> text, code |-> 0]
exitMessage(code) == [generic |-> TRUE, text |-> <<>>, code |-> code]

\* Array.slice(1)
slice1(parts) == IF Len(parts) = 0 THEN <<>> ELSE Tail(parts)

parseError_NoTrim(data, nl) ==
    IF Len(data) > 0 /\ data[1] = Marker
    THEN LET lines == split(data, nl)
             exception == lines[Len(lines)]
             popped == SubSeq(lines, 1, Len(lines) - 1)
         IN [PythonShellError(stderrMessage(exception)) EXCEPT
                !.traceback = data,
                !.stack = nl \o <<"    ----- Python Traceback -----">> \o nl
                          \o <<"  ">> \o join(slice1(popped), nl \o <<"  ">>)]
    ELSE PythonShellError(stderrMessage(data))

parseError(data, nl) ==
    IF Len(data) > 0 /\ data[1] = Marker
    THEN LET lines == split(trim(data), nl)
             exception == lines[Len(lines)]
             popped == SubSeq(lines, 1, Len(lines) - 1)
         IN [PythonShellError(stderrMessage(exception)) EXCEPT
                !.traceback = data,
                !.stack = nl \o <<"    ----- Python Traceback -----">> \o nl
                          \o <<"  ">> \o join(slice1(popped), nl \o <<"  ">>)]
    ELSE PythonShellError(stderrMessage(data))

\* ------------------------------------------------------------------- state
VARIABLES
    newline,         \* os.EOL of the platform
    mode,            \* this.mode
    parser,          \* this.parser: "text", "json" or "undefined"
    stderrParser,    \* this.stderrParser
    viaRun,          \* the session was created by PythonShell.run
    terminated,      \* this.terminated
    killed,          \* childProcess.kill has been called
    stdoutHasEnded,  \* this.stdoutHasEnded
    stderrHasEnded,  \* this.stderrHasEnded
    exitCode,        \* this.exitCode
    exitSignal,      \* this.exitSignal
    remaining,       \* this._remaining
    errorData,       \* the constructor's errorData
    endCallback,     \* this._endCallback
    errorListeners,  \* this.listeners('error').length
    messages,        \* the message events published, in order
    stderrs,         \* the stderr events published, in order
    trace,           \* the error and close events and callback calls, in order
    output,          \* run's output array
    runCalls,        \* the calls of run's callback, in order
    raised,          \* the exceptions raised out of a handler
    stdoutReceived,  \* the text received on stdout so far
    stderrReceived,  \* the text received on stderr so far
    stdin            \* the writes to the process input, in order

config == <<newline, mode, parser, stderrParser, viaRun>>
facts == <<stdoutHasEnded, stderrHasEnded, exitCode, exitSignal>>
framer == <<remaining, messages, stderrs, output, stdoutReceived, errorData,
            stderrReceived>>
vars == <<newline, mode, parser, stderrParser, viaRun, terminated, killed,
          stdoutHasEnded, stderrHasEnded, exitCode, exitSignal, remaining,
          errorData, endCallback, errorListeners, messages, stderrs, trace,
          output, runCalls, raised, stdoutReceived, stderrReceived, stdin>>

Modes == {"text", "json", "binary"}
ParserOptions == {"absent", "text", "json"}

\* the constructor, for the given options; run also subscribes to message
\* and calls end with its own callback
Create(nls, modes, parserOpts, stderrParserOpts, runs) ==
    /\ newline \in nls
    /\ mode \in modes
    /\ \E o \in parserOpts : parser = resolve(IF o = "absent" THEN mode ELSE o)
    /\ \E o \in stderrParserOpts :
           stderrParser = resolve(IF o = "absent" THEN mode ELSE o)
    /\ viaRun \in runs
    /\ terminated = FALSE
    /\ killed = FALSE
    /\ stdoutHasEnded = FALSE
    /\ stderrHasEnded = FALSE
    /\ exitCode = Null
    /\ exitSignal = NullSignal
    /\ remaining = <<>>
    /\ errorData = <<>>
    /\ endCallback = IF viaRun THEN RunEnd ELSE NoCallback
    /\ errorListeners = 0
    /\ messages = <<>>
    /\ stderrs = <<>>
    /\ trace = <<>>
    /\ output = <<>>
    /\ runCalls = <<>>
    /\ raised = {}
    /\ stdoutReceived = <<>>
    /\ stderrReceived = <<>>
    /\ stdin = <<>>

Init == Create({LF}, Modes, {"absent"}, {"absent"}, BOOLEAN)

InitFramer == Create({LF, CRLF}, {"text", "json"}, {"absent"}, {"absent"}, {FALSE})

InitError == Create({LF}, {"text"}, {"absent"}, {"absent"}, {FALSE})

InitText == Create({LF}, {"text"}, {"absent"}, {"absent"}, {FALSE})

InitBinary == Create({LF, CRLF}, {"binary"}, ParserOptions, {"absent"}, {FALSE})

\* ---------------------------------------------------- lifecycle controller
TerminalReady_IgnoresStderr(stdoutE, stderrE, code, signal) ==
    stdoutE /\ (code # Null \/ signal # NullSignal)

TerminalReady_IgnoresExit(stdoutE, stderrE, code, signal) ==
    stdoutE /\ stderrE

TerminalReady(stdoutE, stderrE, code, signal) ==
    ~(~stderrE \/ ~stdoutE \/ (code = Null /\ signal = NullSignal))

Abnormal_AnyCode(code) == code # Null

Abnormal_NotZero(code) == code # 0

Abnormal(code) == code # Null /\ code # 0

ShouldEmitError_Always(listeners, cb) == TRUE

ShouldEmitError(listeners, cb) == listeners > 0 \/ cb = NoCallback

\* EventEmitter.emit('error', err) raises err when nobody listens
EmitErrorRaises(listeners) == listeners = 0

RunCallback_LastOnly(err, out) ==
    IF err # <<>> THEN [err |-> err, arg |-> "undefined", list |-> <<>>]
    ELSE IF Len(out) > 0 THEN [err |-> <<>>, arg |-> "list",
                               list |-> <<out[Len(out)]>>]
    ELSE [err |-> <<>>, arg |-> "null", list |-> <<>>]

\* run's completion callback
RunCallback(err, out) ==
    IF err # <<>> THEN [err |-> err, arg |-> "undefined", list |-> <<>>]
    ELSE IF Len(out) > 0 THEN [err |-> <<>>, arg |-> "list", list |-> out]
    ELSE [err |-> <<>>, arg |-> "null", list |-> <<>>]

CloseSteps_CallbackOnlyOnSuccess(err, code, signal, cb) ==
    <<[type |-> "close", err |-> <<>>, code |-> code, signal |-> signal,
       cb |-> NoCallback, terminated |-> TRUE]>>
    \o (IF cb # NoCallback /\ err = <<>>
        THEN <<[type |-> "callback", err |-> err, code |-> code,
                signal |-> signal, cb |-> cb, terminated |-> TRUE]>>
        ELSE <<>>)

CloseSteps_CallbackFirst(err, code, signal, cb) ==
    (IF cb # NoCallback
     THEN <<[type |-> "callback", err |-> err, code |-> code,
             signal |-> signal, cb |-> cb, terminated |-> TRUE]>>
     ELSE <<>>)
    \o <<[type |-> "close", err |-> <<>>, code |-> code, signal |-> signal,
          cb |-> NoCallback, terminated |-> TRUE]>>

\* what terminateIfNeeded appends to the trace once it has passed the error
\* publication: terminated is set, close published, then the callback called
CloseSteps(err, code, signal, cb) ==
    <<[type |-> "close", err |-> <<>>, code |-> code, signal |-> signal,
       cb |-> NoCallback, terminated |-> TRUE]>>
    \o (IF cb # NoCallback
        THEN <<[type |-> "callback", err |-> err, code |-> code,
                signal |-> signal, cb |-> cb, terminated |-> TRUE]>>
        ELSE <<>>)

\* called with the facts as the handler has just set them
terminateIfNeeded(stdoutE, stderrE, code, signal) ==
    IF ~TerminalReady(stdoutE, stderrE, code, signal)
    THEN UNCHANGED <<terminated, trace, raised, runCalls>>
    ELSE LET err == IF Abnormal(code)
                    THEN <<[(IF errorData # <<>>
                             THEN parseError(errorData, newline)
                             ELSE PythonShellError(exitMessage(code)))
                            EXCEPT !.exitCode = code]>>
                    ELSE <<>>
             emits == err # <<>> /\ ShouldEmitError(errorListeners, endCallback)
             published == IF emits
                          THEN <<[type |-> "error", err |-> err, code |-> code,
                                  signal |-> signal, cb |-> NoCallback,
                                  terminated |-> terminated]>>
                          ELSE <<>>
         IN IF emits /\ EmitErrorRaises(errorListeners)
            THEN /\ trace' = trace \o published
                 /\ raised' = raised \cup {"error"}
                 /\ UNCHANGED <<terminated, runCalls>>
            ELSE /\ terminated' = TRUE
                 /\ trace' = trace \o published
                               \o CloseSteps(err, code, signal, endCallback)
                 /\ runCalls' = IF endCallback = RunEnd
                                THEN Append(runCalls, RunCallback(err, output))
                                ELSE runCalls
                 /\ UNCHANGED raised

StdoutEnd ==
    /\ ~stdoutHasEnded
    /\ stdoutHasEnded' = TRUE
    /\ terminateIfNeeded(TRUE, stderrHasEnded, exitCode, exitSignal)
    /\ UNCHANGED <<config, stdin, killed, stderrHasEnded, exitCode, exitSignal,
                   endCallback, errorListeners, framer>>

StderrEnd ==
    /\ ~stderrHasEnded
    /\ stderrHasEnded' = TRUE
    /\ terminateIfNeeded(stdoutHasEnded, TRUE, exitCode, exitSignal)
    /\ UNCHANGED <<config, stdin, killed, stdoutHasEnded, exitCode, exitSignal,
                   endCallback, errorListeners, framer>>

Exit ==
    /\ exitCode = Null /\ exitSignal = NullSignal
    /\ \E outcome \in {<<c, NullSignal>> : c \in 0..MaxExitCode}
                      \cup {<<Null, s>> : s \in Signals} :
           /\ exitCode' = outcome[1]
           /\ exitSignal' = outcome[2]
           /\ terminateIfNeeded(stdoutHasEnded, stderrHasEnded,
                                outcome[1], outcome[2])
    /\ UNCHANGED <<config, stdin, killed, stdoutHasEnded, stderrHasEnded,
                   endCallback, errorListeners, framer>>

\* ------------------------------------------------------------ receive path
receive(data) ==
    LET r == recieveInternal(remaining, data, parser, newline)
    IN /\ remaining' = r.remaining
       /\ messages' = messages \o r.emitted
       /\ output' = IF viaRun THEN output \o r.emitted ELSE output
       /\ raised' = IF r.threw THEN raised \cup {"parser"} ELSE raised
       /\ UNCHANGED stderrs

receiveStderr(data) ==
    LET r == recieveInternal(remaining, data, stderrParser, newline)
    IN /\ remaining' = r.remaining
       /\ stderrs' = stderrs \o r.emitted
       /\ raised' = IF r.threw THEN raised \cup {"parser"} ELSE raised
       /\ UNCHANGED <<messages, output>>

StdoutData(max) ==
    /\ ~stdoutHasEnded
    /\ \E data \in Chunks(MaxChunk) :
           /\ Len(stdoutReceived) + Len(data) <= max
           /\ stdoutReceived' = stdoutReceived \o data
           /\ IF parser # "undefined"
              THEN receive(data)
              ELSE UNCHANGED <<remaining, messages, output, raised, stderrs>>
    /\ UNCHANGED <<config, stdin, facts, terminated, killed, errorData,
                   stderrReceived, endCallback, errorListeners, trace, runCalls>>

\* a mutant: the text is kept only when the framer call returns
stderrOnData_DecodeFirst(data) ==
    /\ receiveStderr(data)
    /\ errorData' =
           IF recieveInternal(remaining, data, stderrParser, newline).threw
           THEN errorData ELSE errorData \o data

\* the body of the stderr 'data' handler
stderrOnData(data) ==
    /\ errorData' = errorData \o data
    /\ receiveStderr(data)

StderrDataFrom(chunks, max) ==
    /\ ~stderrHasEnded
    /\ \E data \in chunks :
           /\ Len(stderrReceived) + Len(data) <= max
           /\ stderrReceived' = stderrReceived \o data
           /\ stderrOnData(data)
    /\ UNCHANGED <<config, stdin, facts, terminated, killed, stdoutReceived,
                   endCallback, errorListeners, trace, runCalls>>

StderrData(max) == StderrDataFrom(Chunks(MaxChunk), max)

\* ------------------------------------------------------------------- send
\* what send hands to stdin.write: the formatted text, or the message itself
\* when no formatter is resolved; with the terminator unless in binary mode
\* (the messages of a json or text session give text, to which += appends).
\* stdin.write takes a string (or bytes): for any other value it raises a
\* TypeError out of send and nothing is written
send(message) ==
    LET f == resolve(mode)
        data == IF f # "undefined" THEN Str(Format(f, message)) ELSE message
        written == IF mode # "binary"
                   THEN Str(toString(data) \o newline) ELSE data
    IN /\ IF written.kind = "str"
          THEN /\ stdin' = Append(stdin, [message |-> message, data |-> written])
               /\ UNCHANGED raised
          ELSE /\ raised' = raised \cup {"write"}
               /\ UNCHANGED stdin
       /\ UNCHANGED <<config, facts, terminated, killed, framer, endCallback,
                      errorListeners, trace, runCalls>>

Send ==
    /\ Len(stdin) < MaxSends
    /\ \E message \in Values : send(message)

\* ---------------------------------------------------- termination operations
end(callback) ==
    /\ endCallback' = callback
    /\ UNCHANGED <<config, stdin, facts, terminated, killed, framer, errorListeners,
                   trace, runCalls, raised>>

terminate_ForgetsCallback ==
    /\ killed' = TRUE
    /\ terminated' = TRUE
    /\ endCallback' = NoCallback
    /\ UNCHANGED <<config, stdin, facts, framer, errorListeners, trace,
                   runCalls, raised>>

terminate ==
    /\ killed' = TRUE
    /\ terminated' = TRUE
    /\ UNCHANGED <<config, stdin, facts, framer, endCallback, errorListeners, trace,
                   runCalls, raised>>

End == \E callback \in Callbacks : end(callback)

Terminate == terminate

\* the caller subscribes to the error event
OnError ==
    /\ errorListeners < MaxErrorListeners
    /\ errorListeners' = errorListeners + 1
    /\ UNCHANGED <<config, stdin, facts, terminated, killed, framer, endCallback,
                   trace, runCalls, raised>>

Next ==
    \/ StdoutData(MaxStdout)
    \/ StderrData(MaxStderr)
    \/ StdoutEnd
    \/ StderrEnd
    \/ Exit
    \/ End
    \/ Terminate
    \/ OnError

Spec == Init /\ [][Next]_vars

\* a session whose caller only listens: the framer under every codec
NextFramer ==
    \/ StdoutData(MaxFramerText)
    \/ StderrData(MaxFramerText)
    \/ StdoutEnd
    \/ StderrEnd
    \/ Exit

SpecFramer == InitFramer /\ [][NextFramer]_vars

\* the same caller in every mode, the stderr text longer than the stdout text
InitModes == Create({LF, CRLF}, Modes, {"absent"}, {"absent"}, {FALSE})

NextModes ==
    \/ StdoutData(MaxStdout)
    \/ StderrData(MaxFramerText)
    \/ StdoutEnd
    \/ StderrEnd
    \/ Exit

SpecModes == InitModes /\ [][NextModes]_vars

\* sessions made by run, in text mode, that publish several messages; the
\* caller may subscribe to error and call end on the session run returns
InitRun == Create({LF}, {"text"}, {"absent"}, {"absent"}, {TRUE})

NextRun ==
    \/ StdoutData(MaxRunText)
    \/ StderrData(MaxStderr)
    \/ StdoutEnd
    \/ StderrEnd
    \/ Exit
    \/ End
    \/ OnError

SpecRun == InitRun /\ [][NextRun]_vars

\* a caller that only sends
NextSend == Send

SpecSend == InitModes /\ [][NextSend]_vars

\* the same caller, in binary mode, with and without a parser option
SpecBinary == InitBinary /\ [][NextFramer]_vars

\* the same caller, in text mode with a one-character terminator
SpecText == InitText /\ [][NextFramer]_vars

\* a failing script: stderr text that may start with the traceback marker
NextError ==
    \/ StderrDataFrom(ErrorChunks(MaxChunk), MaxErrorText)
    \/ StdoutEnd
    \/ StderrEnd
    \/ Exit
    \/ OnError

SpecError == InitError /\ [][NextError]_vars

\* ============================================================== properties
AllThree ==
    stdoutHasEnded /\ stderrHasEnded /\ (exitCode # Null \/ exitSignal # NullSignal)

\* the step in which the last of the three signals arrives
LastSignal == ~AllThree /\ AllThree'

Of(type) == SelectSeq(trace, LAMBDA e : e.type = type)
Closes == Len(Of("close"))
Errors == Len(Of("error"))
CallbackCalls == Len(Of("callback"))
NonZero(code) == code # Null /\ code # 0

\* the terminal transition finds neither an error subscriber nor a callback
Unhandled == errorListeners = 0 /\ endCallback = NoCallback

\* the error terminateIfNeeded builds for a non-zero exit code
BuiltError(code) ==
    [(IF errorData = <<>> THEN PythonShellError(exitMessage(code))
      ELSE parseError(errorData, newline)) EXCEPT !.exitCode = code]

\* ---- C1
\* C1 as stated: once stdout end, stderr end and process exit have all
\* arrived close has been published exactly once, and not before, whatever
\* the exit code, the error subscribers and the completion callback.
C1_Original == Closes = (IF AllThree THEN 1 ELSE 0)

\* ---- C2
\* C2 as stated: with terminate() called at least once, at any point, the
\* session publishes exactly one close once the three notifications have
\* arrived and never calls the completion callback more than once.
C2_Original ==
    killed => /\ (AllThree => Closes = 1)
              /\ Closes <= 1
              /\ CallbackCalls <= 1

\* ---- C3
\* C3 as stated: a terminal transition with a non-zero exit code, no error
\* subscriber and no completion callback raises nothing, marks the session
\* terminated and publishes close.
C3_Original ==
    [][(LastSignal /\ NonZero(exitCode') /\ Unhandled)
       => (raised' = raised /\ terminated' /\ Closes' = Closes + 1)]_vars

\* ---- C4
\* C4 as stated: a callback registered with end() has been called exactly
\* once when the terminal transition is over, whenever end() was called.
C4_Original ==
    \A cb \in Callbacks :
        (AllThree /\ endCallback = cb)
        => Len(SelectSeq(trace, LAMBDA e : e.type = "callback" /\ e.cb = cb)) = 1

\* C4 amended: the callback most recently registered with end() when the last
\* signal arrives is called exactly once, in that step, after close, with
\* (error, exitCode, exitSignal); no other step calls a callback, so one
\* replaced by a later end() or registered after the transition is never
\* called.
C4_CallbackOfLastEnd ==
    [][IF LastSignal /\ endCallback # NoCallback
       THEN /\ Of("callback")' = Append(Of("callback"),
                   [type |-> "callback",
                    err |-> IF NonZero(exitCode')
                            THEN <<BuiltError(exitCode')>> ELSE <<>>,
                    code |-> exitCode', signal |-> exitSignal',
                    cb |-> endCallback, terminated |-> TRUE])
            /\ trace'[Len(trace')].type = "callback"
            /\ trace'[Len(trace') - 1].type = "close"
       ELSE Of("callback")' = Of("callback")]_vars

C4_Witness ==
    /\ endCallback = "cb2"
    /\ \E i \in DOMAIN trace : trace[i].type = "callback" /\ trace[i].cb = "cb1"
    /\ CallbackCalls = 1

\* ---- C5
\* C5: on one stream, in text mode, the records published for the chunks
\* received so far are the records the framer publishes for their
\* concatenation received as one chunk.
C5_ChunkInvariance ==
    (parser = "text" /\ errorData = <<>>)
    => messages = recieveInternal(<<>>, stdoutReceived, parser, newline).emitted

\* ---- C6
\* C6: when the last signal arrives with exit code 0 and no stderr text, no
\* error event is published, close is published once, and the registered
\* completion callback is called with no error and exit code 0.
C6_CleanExit ==
    [][(LastSignal /\ exitCode' = 0 /\ errorData = <<>>)
       => /\ Errors' = Errors /\ Errors = 0
          /\ Closes' = 1
          /\ raised' = raised
          /\ IF endCallback = NoCallback THEN CallbackCalls' = 0
             ELSE Of("callback")' =
                     <<[type |-> "callback", err |-> <<>>, code |-> 0,
                        signal |-> NullSignal, cb |-> endCallback,
                        terminated |-> TRUE]>>]_vars

C6_Witness ==
    /\ AllThree /\ exitCode = 0 /\ errorData = <<>> /\ Closes = 1
    /\ CallbackCalls = 1 /\ Errors = 0

\* ---- C7
\* C7: when the last signal arrives with a non-zero exit code, the error
\* event is published (emit is called) if and only if an error subscriber
\* exists or no completion callback is registered, and a registered callback
\* is called with that error in either case.
C7_ErrorPublication ==
    [][(LastSignal /\ NonZero(exitCode'))
       => /\ Errors' = Errors + (IF errorListeners > 0 \/ endCallback = NoCallback
                                 THEN 1 ELSE 0)
          /\ \A i \in DOMAIN trace' :
                 trace'[i].type = "error"
                 => trace'[i].err = <<BuiltError(exitCode')>>
          /\ endCallback # NoCallback
             => /\ CallbackCalls' = 1
                /\ Of("callback")'[1].cb = endCallback
                /\ Of("callback")'[1].err = <<BuiltError(exitCode')>>]_vars

C7_Witness ==
    /\ AllThree /\ exitCode = 1 /\ Errors = 0 /\ CallbackCalls = 1
    /\ errorData # <<>>

\* ---- C8
\* C8: once close is published no message, stderr or error event is
\* published: no later step adds one, and within the terminal transition
\* the error event precedes close.
C8_NothingAfterClose ==
    /\ [](\A i, j \in DOMAIN trace :
             (i < j /\ trace[i].type = "close") => trace[j].type # "error")
    /\ [][Closes >= 1 => /\ messages' = messages
                         /\ stderrs' = stderrs
                         /\ Errors' = Errors]_vars

C8_Witness ==
    Closes = 1 /\ Errors = 1 /\ Len(messages) > 0 /\ Len(stderrs) > 0

\* ---- C9
\* C9: in binary mode no chunk is split into records, kept in the framing
\* buffer or handed to a parser, whatever parser option was given.
C9_BinaryBypassesFramer ==
    mode = "binary"
    => /\ remaining = <<>>
       /\ messages = <<>>
       /\ stderrs = <<>>
       /\ "parser" \notin raised

\* ---- C10
\* what run's callback is called with in the current state
RunCallsAsClaimed ==
    \A i \in DOMAIN runCalls :
        IF NonZero(exitCode)
        THEN runCalls[i] = [err |-> <<BuiltError(exitCode)>>,
                            arg |-> "undefined", list |-> <<>>]
        ELSE runCalls[i] = [err |-> <<>>,
                            arg |-> IF messages = <<>> THEN "null" ELSE "list",
                            list |-> messages]

StartsWithMarker(t) == Len(t) > 0 /\ t[1] = Marker

\* t without the whitespace at its two ends
Stripped(t) ==
    LET solid == {i \in 1..Len(t) : t[i] \notin Whitespace}
    IN IF solid = {} THEN <<>>
       ELSE SubSeq(t, CHOOSE i \in solid : \A j \in solid : i <= j,
                      CHOOSE i \in solid : \A j \in solid : i >= j)

\* where the one-character terminators of t are
Terminators(t) == {i \in 1..Len(t) : t[i] = "\n"}
FirstOf(S) == CHOOSE i \in S : \A j \in S : i <= j
LastOf(S) == CHOOSE i \in S : \A j \in S : i >= j

LastLineOf(t) ==
    LET u == Stripped(t)
    IN IF Terminators(u) = {} THEN u
       ELSE SubSeq(u, LastOf(Terminators(u)) + 1, Len(u))

\* the text between the marker line and the last line
MiddleBlock(t) ==
    LET u == Stripped(t)
    IN IF Cardinality(Terminators(u)) < 2 THEN <<>>
       ELSE SubSeq(u, FirstOf(Terminators(u)) + 1, LastOf(Terminators(u)) - 1)

RECURSIVE Indented(_)
Indented(t) ==
    IF t = <<>> THEN <<>>
    ELSE (IF t[1] = "\n" THEN <<"\n", "  ">> ELSE <<t[1]>>) \o Indented(Tail(t))

ErrorsBuilt == {trace[i].err[1] : i \in {j \in DOMAIN trace : trace[j].err # <<>>}}

\* C11 as stated: for stderr text that begins with the marker the error's
\* message is the last line of the text and its traceback field is the lines
\* after the marker line and before the last line; for other text the
\* message is the whole text and no traceback is set.
C11_Original ==
    \A err \in ErrorsBuilt :
        stderrReceived # <<>>
        => IF StartsWithMarker(stderrReceived)
           THEN /\ err.message = [generic |-> FALSE, code |-> 0,
                                  text |-> LastLineOf(stderrReceived)]
                /\ err.traceback = MiddleBlock(stderrReceived)
           ELSE /\ err.message = [generic |-> FALSE, code |-> 0,
                                  text |-> stderrReceived]
                /\ err.traceback = <<>>

\* C11 amended: for stderr text that begins with the marker the error's
\* message is the last line of the trimmed text, its traceback field is the
\* whole stderr text, and the lines after the marker line and before the
\* last line are appended, indented, to the error's stack; for other text
\* the message is the whole text, no traceback is set and the stack is not
\* extended.
C11_ParseError ==
    \A err \in ErrorsBuilt :
        stderrReceived # <<>>
        => IF StartsWithMarker(stderrReceived)
           THEN /\ err.message = [generic |-> FALSE, code |-> 0,
                                  text |-> LastLineOf(stderrReceived)]
                /\ err.traceback = stderrReceived
                /\ err.stack = <<"\n", "    ----- Python Traceback -----",
                                 "\n", "  ">>
                               \o Indented(MiddleBlock(stderrReceived))
           ELSE /\ err.message = [generic |-> FALSE, code |-> 0,
                                  text |-> stderrReceived]
                /\ err.traceback = <<>>
                /\ err.stack = <<>>

C11_Witness ==
    /\ stderrReceived = <<Marker, "\n", "1", "\n", "1">>
    /\ \E err \in ErrorsBuilt : err.message.text = <<"1">> /\ err.exitCode = 1

\* ---- C12
\* the records a framer of its own publishes for text t (with a
\* one-character terminator they do not depend on the chunking, see C5)
RecordsAlone(t) == recieveInternal(<<>>, t, "text", LF).emitted

\* C12: with a one-character terminator and text codecs, whatever the
\* interleaving of stdout and stderr chunks, the message records are those
\* of the stdout text alone and the stderr records those of the stderr text
\* alone.
C12_FramersIndependent ==
    (newline = LF /\ parser = "text" /\ stderrParser = "text")
    => /\ messages = RecordsAlone(stdoutReceived)
       /\ stderrs = RecordsAlone(stderrReceived)

\* ---- C14
\* C14: after every call of the framer the buffered fragment contains no
\* complete line terminator.
C14_BufferHoldsNoTerminator == IndexOf(remaining, newline) = 0

\* ---- C13
\* C13: close is published and the completion callback called only in
\* states where stdout has ended, stderr has ended and the exit is recorded;
\* from close on terminated is true and the three facts stay set.
C13_CloseNeedsAllFacts ==
    /\ (Closes >= 1 \/ CallbackCalls >= 1 \/ runCalls # <<>>)
       => (stdoutHasEnded /\ stderrHasEnded
           /\ (exitCode # Null \/ exitSignal # NullSignal) /\ terminated)
    /\ \A i \in DOMAIN trace :
           trace[i].type \in {"close", "callback"}
           => /\ trace[i].terminated
              /\ trace[i].code = exitCode /\ trace[i].signal = exitSignal

C13_Witness ==
    Closes = 1 /\ CallbackCalls = 1 /\ exitSignal = "SIGTERM" /\ killed

\* ---- C15
\* C15: at most one error is built and at most one error event published,
\* only once the three signals have arrived and only for a recorded non-zero
\* exit code; after an exit by signal or with code 0 there is no error, even
\* when stderr text was received, and the callback is called without one.
C15_OneErrorOnlyIfNonZero ==
    /\ Errors <= 1
    /\ Cardinality(ErrorsBuilt) <= 1
    /\ ErrorsBuilt # {} => (AllThree /\ exitCode # Null /\ exitCode # 0)
    /\ (AllThree /\ (exitCode = Null \/ exitCode = 0))
       => \A i \in DOMAIN trace : trace[i].type # "error" /\ trace[i].err = <<>>
    /\ \A i \in DOMAIN runCalls :
           (exitCode = Null \/ exitCode = 0) => runCalls[i].err = <<>>

C15_Witness ==
    /\ exitSignal = "SIGTERM" /\ errorData # <<>> /\ CallbackCalls = 1
    /\ Errors = 0 /\ ErrorsBuilt = {}

\* ---- C16
\* C16: when a terminal transition with a non-zero exit code has published
\* the error event and called a completion callback, the effects are, in
\* order: the error event (published before the transition marks the
\* session terminated), close (published with terminated already true),
\* then the callback with (error, exitCode, exitSignal).
C16_OrderOfEffects ==
    (Errors >= 1 /\ CallbackCalls >= 1)
    => /\ Len(trace) = 3
       /\ trace[1].type = "error"
       /\ trace[1].terminated => killed
       /\ trace[2].type = "close" /\ trace[2].terminated
       /\ trace[3].type = "callback"
       /\ trace[3].err = trace[1].err
       /\ trace[3].err # <<>>
       /\ trace[3].code = exitCode /\ trace[3].code = trace[3].err[1].exitCode
       /\ trace[3].signal = exitSignal

C16_Witness ==
    /\ Len(trace) = 3 /\ trace[1].type = "error" /\ ~trace[1].terminated
    /\ trace[3].type = "callback" /\ trace[3].cb = "cb1" /\ exitCode = 1

\* ---- C19
\* C19: a terminate() call requests the kill and sets terminated; it
\* publishes no event, calls no callback and leaves the end flags, the exit
\* code and signal, the registered callback and the framing buffer as they
\* were.
C19_TerminateFrame ==
    [][(~killed /\ killed')
       => /\ terminated'
          /\ UNCHANGED <<trace, runCalls, raised, messages, stderrs, output,
                         stdoutHasEnded, stderrHasEnded, exitCode, exitSignal,
                         endCallback, remaining, errorData, errorListeners>>]_vars

\* terminated holds although close has not been published
C19_Witness ==
    killed /\ terminated /\ Closes = 0 /\ ~stdoutHasEnded /\ exitCode = Null

\* ---- C17
\* C17: the text kept for error classification is the concatenation, in
\* arrival order, of every stderr chunk received, in every mode and also
\* when the stderr framer's decoder raised; an error built at the terminal
\* transition is the one the error parser builds from that concatenation.
C17_ErrorTextIsAllStderr ==
    /\ errorData = stderrReceived
    /\ \A err \in ErrorsBuilt :
           err = [(IF stderrReceived = <<>>
                   THEN PythonShellError(exitMessage(exitCode))
                   ELSE parseError(stderrReceived, newline))
                  EXCEPT !.exitCode = exitCode]

\* a json session whose stderr decoder raised on the first of two chunks
C17_Witness ==
    /\ mode = "json" /\ stdoutReceived = <<>> /\ "parser" \in raised
    /\ stderrs = <<>> /\ Len(stderrReceived) = 2
    /\ \E err \in ErrorsBuilt : err.message.text = stderrReceived

\* ---- C18
\* C18 as stated: in text mode send(v) writes the string representation of
\* v, also for the falsy values 0, false and the empty string, followed by
\* one line terminator; in binary mode it writes v with no terminator.
C18_SendWritesStringForm ==
    \A i \in DOMAIN stdin :
        /\ mode = "text"
           => stdin[i].data = Str(toString(stdin[i].message) \o newline)
        /\ mode = "binary" => stdin[i].data = stdin[i].message

\* ---- C20
\* the text received after the last terminator
Unterminated(t) ==
    IF Terminators(t) = {} THEN t
    ELSE SubSeq(t, LastOf(Terminators(t)) + 1, Len(t))

Holds(buffer, t) ==
    \E i \in 0..(Len(buffer) - Len(t)) : SubSeq(buffer, i + 1, i + Len(t)) = t

\* C20 as stated: with a one-character terminator the number of message
\* events equals the number of terminators received on stdout, and the
\* stdout text after the last terminator stays in the buffer, also after
\* stdout has ended and after close.
C20_UnterminatedTailStaysBuffered ==
    (newline = LF /\ mode # "binary")
    => /\ Len(messages) = Cardinality(Terminators(stdoutReceived))
       /\ Holds(remaining, Unterminated(stdoutReceived))

====
